---- MODULE Spec2Model ----
(***************************************************************************)
(* Verification model of iam0-core: the Schnorr proof of key possession    *)
(* (crypto/schnorr.rs), its wire decoding, and the token envelope          *)
(* (crypto/token.rs).                                                      *)
(*                                                                         *)
(* The prime-order curve of the p256 crate is scaled down to the curve     *)
(* y^2 = x^3 + 4x + 2 over GF(5), whose group has prime order 3; field     *)
(* elements and scalars are one byte wide on the wire.  SHA-512 is a       *)
(* random oracle: the digest of an input is chosen when the input is       *)
(* first hashed and is the same ever after.                                *)
(*                                                                         *)
(* Further components: the ChaCha generator (crypto/csprng.rs) with a      *)
(* block of 4 bytes and a 2-bit counter; the repository's own curve        *)
(* arithmetic and key generation (crypto/elliptic_curve.rs) on small       *)
(* curves, with BigUint panics kept; identifiers (data/id.rs) with the     *)
(* bit layout scaled to 12 bits; and login (service/mod.rs).               *)
(***************************************************************************)
EXTENDS Integers, Sequences, FiniteSets, TLC

VARIABLES
    key,          \* the prover's key pair (private_key, public_key)
    oracle,       \* the digests SHA-512 has produced so far: {[input, digest]}
    rngDraws,     \* the scalars thread_rng has handed out, in order
    proofs,       \* the calls of Shnorr::proof made so far, with their results
    lastVerify,   \* the latest call of Shnorr::verify and its result
    request,      \* the ShnorrProof request being served: its text and its decoding
    token,        \* the Token that Token::sign made
    wire,         \* the text Token::encrypt made of it, as it travels
    decrypted,    \* the latest call of Token::decrypt and its result
    rng,          \* the ChaChaRng instance: key, nonce, counter, block, offset
    keystream,    \* every byte the instance has output so far, in order
    lastDraw,     \* the latest call on the instance: next_u8 or fill_bytes(len)
    sampler,      \* a call of random_scalar or generate_key_pair and where it stands
    calc,         \* the latest evaluation of EllipticCurvePoint::add / mul
    ident,        \* an Identifier, its texts and what they parse back to
    generator,    \* the IdentifierGenerator: timestamp, sequence, service_id, worker_id
    issued,       \* what generate / generate_bits returned so far, in order
    login         \* a UserLoginRequest, who made it, and what login returned for it

schnorrVars == <<key, oracle, rngDraws, proofs, lastVerify, request>>
tokenVars == <<token, wire, decrypted>>
rngVars == <<rng, keystream, lastDraw>>
curveVars == <<sampler, calc>>
idVars == <<ident, generator, issued>>
coreVars == <<rngVars, curveVars, idVars, login>>
notRngVars == <<schnorrVars, tokenVars, curveVars, idVars, login>>
notCurveVars == <<schnorrVars, tokenVars, rngVars, idVars, login>>
notIdVars == <<schnorrVars, tokenVars, rngVars, curveVars, login>>
notLoginVars == <<key, rngDraws, proofs, lastVerify, request, tokenVars,
                  rngVars, curveVars, idVars>>
vars == <<key, oracle, rngDraws, proofs, lastVerify, request, token, wire, decrypted,
          rng, keystream, lastDraw, sampler, calc, ident, generator, issued, login>>

-----------------------------------------------------------------------------
(* Bounds *)

MaxProofs == 1
MaxNonceProofs == 2

(* Curve parameters (NistP256, scaled) *)

CurveP == 5
CurveA == 4
CurveB == 2
CurveN == 3

\* size_of::<ScalarPrimitive<Curve>>(), in bits
ScalarBits == 2
\* width of the Sha512 digest, in bits
HashBits == 3

FieldElements == 0..(CurveP - 1)
Scalars == 0..(CurveN - 1)
PrivateKeys == 1..(CurveN - 1)
HashValues == 0..(2^HashBits - 1)
Payloads == {<<1>>, <<2>>}

-----------------------------------------------------------------------------
(* The curve group (elliptic_curve::ProjectivePoint / AffinePoint) *)

Identity == [x |-> 0, y |-> 0, infinity |-> TRUE]

Affine(x, y) == [x |-> x, y |-> y, infinity |-> FALSE]

Generator == Affine(3, 1)

OnCurve(x, y) == (y * y) % CurveP = (x * x * x + CurveA * x + CurveB) % CurveP

FieldInv(a) == CHOOSE i \in 1..(CurveP - 1) : (i * a) % CurveP = 1

GroupAdd(P, Q) ==
    IF P.infinity THEN Q
    ELSE IF Q.infinity THEN P
    ELSE IF P.x = Q.x /\ (P.y + Q.y) % CurveP = 0 THEN Identity
    ELSE LET lambda == IF P.x = Q.x
                       THEN ((3 * P.x * P.x + CurveA) * FieldInv((2 * P.y) % CurveP)) % CurveP
                       ELSE ((Q.y - P.y) * FieldInv((Q.x - P.x) % CurveP)) % CurveP
             x3 == (lambda * lambda - P.x - Q.x) % CurveP
             y3 == (lambda * (P.x - x3) - P.y) % CurveP
         IN  Affine(x3, y3)

RECURSIVE GroupMul(_, _)
GroupMul(P, k) == IF k = 0 THEN Identity ELSE GroupAdd(P, GroupMul(P, k - 1))

Points == {GroupMul(Generator, k) : k \in Scalars}

\* to_encoded_point(compress): SEC1, one byte per coordinate
ToEncodedPoint(P, compress) ==
    IF P.infinity THEN <<0>>
    ELSE IF compress THEN <<2 + (P.y % 2), P.x>>
    ELSE <<4, P.x, P.y>>

-----------------------------------------------------------------------------
(* crypto/schnorr.rs *)

Hashed(input) == \E e \in oracle : e.input = input

DigestOf(input) == (CHOOSE e \in oracle : e.input = input).digest

\* Sha512 of `input` may come out as `digest`
Sha512(input, digest) == Hashed(input) => digest = DigestOf(input)

Record(input, digest) == oracle \cup {[input |-> input, digest |-> digest]}

\* a commit step that keeps the nonce of the previous call when there is one
commitmentReusesNonce(draws, drawn) ==
    IF draws = <<>>
    THEN [draws |-> <<drawn>>, draw |-> 1, nonce |-> drawn,
          commitment |-> GroupMul(Generator, drawn)]
    ELSE [draws |-> draws, draw |-> Len(draws), nonce |-> draws[Len(draws)],
          commitment |-> GroupMul(Generator, draws[Len(draws)])]

\* commitment(): the nonce is drawn from the random source, never passed in
commitment(draws, drawn) ==
    [draws      |-> Append(draws, drawn),
     draw       |-> Len(draws) + 1,
     nonce      |-> drawn,
     commitment |-> GroupMul(Generator, drawn)]

\* the bytes that challenge() hashes
ChallengeInput(R, payload) == ToEncodedPoint(R, TRUE) \o payload

\* challenge(): the leading size_of::<ScalarPrimitive>() bytes of the digest,
\* big-endian; ScalarPrimitive::from_slice refuses a value >= n and the
\* unwrap() then panics
challenge(digest) ==
    LET leading == digest \div (2^(HashBits - ScalarBits))
    IN  IF leading < CurveN
        THEN [panic |-> FALSE, value |-> leading]
        ELSE [panic |-> TRUE,  value |-> 0]

\* a response that leaves the private key out: s = k + c
proofWithoutKey(x, cm, digest) ==
    LET c == challenge(digest)
    IN  IF c.panic
        THEN [status |-> "panic", challenge |-> 0, proof |-> 0]
        ELSE [status |-> "ok", challenge |-> c.value,
              proof  |-> (cm.nonce + c.value) % CurveN]

\* Shnorr::proof, given the commit step's result and the digest
proof(x, cm, digest) ==
    LET c == challenge(digest)
    IN  IF c.panic
        THEN [status |-> "panic", challenge |-> 0, proof |-> 0]
        ELSE [status |-> "ok", challenge |-> c.value,
              proof  |-> (cm.nonce + x * c.value) % CurveN]

\* a verification that multiplies the generator, not the public key, by c
verifyIgnoresKey(public_key, s, R, digest) ==
    LET c == challenge(digest)
    IN  IF c.panic THEN "panic"
        ELSE IF GroupMul(Generator, s) = GroupAdd(R, GroupMul(Generator, c.value))
             THEN "true" ELSE "false"

\* a verification that leaves the challenge term out: s*g == R
verifyCommitmentOnly(public_key, s, R, digest) ==
    LET c == challenge(digest)
    IN  IF c.panic THEN "panic"
        ELSE IF GroupMul(Generator, s) = R THEN "true" ELSE "false"

\* Shnorr::verify, given the digest
verify(public_key, s, R, digest) ==
    LET c == challenge(digest)
    IN  IF c.panic THEN "panic"
        ELSE IF GroupMul(Generator, s) = GroupAdd(R, GroupMul(public_key, c.value))
             THEN "true" ELSE "false"

-----------------------------------------------------------------------------
(* The proof on the wire (ShnorrProof and its serde decoding) *)

\* bytes per field element and per scalar in SEC1 and in Scalar::to_bytes
FieldBytes == 1

HexDigits == <<"0", "1", "2", "3", "4", "5", "6", "7",
               "8", "9", "a", "b", "c", "d", "e", "f">>

IsHexDigit(ch) == \E v \in 1..16 : HexDigits[v] = ch

HexValue(ch) == (CHOOSE v \in 1..16 : HexDigits[v] = ch) - 1

\* hex::encode
HexEncode(bytes) ==
    [i \in 1..(2 * Len(bytes)) |->
        IF i % 2 = 1 THEN HexDigits[(bytes[(i + 1) \div 2] \div 16) + 1]
                     ELSE HexDigits[(bytes[i \div 2] % 16) + 1]]

\* hex::decode: an odd length or a character that is no hex digit is an error
HexDecode(text) ==
    IF Len(text) % 2 = 1 \/ \E i \in 1..Len(text) : ~IsHexDigit(text[i])
    THEN [ok |-> FALSE, bytes |-> <<>>]
    ELSE [ok |-> TRUE,
          bytes |-> [i \in 1..(Len(text) \div 2) |->
                        16 * HexValue(text[2 * i - 1]) + HexValue(text[2 * i])]]

\* sec1 EncodedPoint::from_bytes: the tag byte fixes the length
EncodedPointFromBytes(bytes) ==
    IF bytes = <<>> THEN FALSE
    ELSE CASE bytes[1] = 0       -> Len(bytes) = 1
           [] bytes[1] \in {2, 3} -> Len(bytes) = 1 + FieldBytes
           [] bytes[1] = 4       -> Len(bytes) = 1 + 2 * FieldBytes
           [] OTHER              -> FALSE

\* AffinePoint::from_encoded_point on a well-formed EncodedPoint
FromEncodedPoint(bytes) ==
    CASE bytes[1] = 0 -> [some |-> TRUE, point |-> Identity]
      [] bytes[1] \in {2, 3} ->
            LET x  == bytes[2]
                ys == {y \in FieldElements :
                          x \in FieldElements /\ OnCurve(x, y) /\ y % 2 = bytes[1] - 2}
            IN  IF ys = {} THEN [some |-> FALSE, point |-> Identity]
                ELSE [some |-> TRUE, point |-> Affine(x, CHOOSE y \in ys : TRUE)]
      [] OTHER ->
            LET x == bytes[2]
                y == bytes[3]
            IN  IF x \in FieldElements /\ y \in FieldElements /\ OnCurve(x, y)
                THEN [some |-> TRUE, point |-> Affine(x, y)]
                ELSE [some |-> FALSE, point |-> Identity]

\* deserialize_p256_affine_point_from_ec1
deserialize_p256_affine_point_from_ec1(text) ==
    LET s == HexDecode(text)
    IN  IF ~s.ok
        THEN [ok |-> FALSE, point |-> Identity,
              error |-> "the provided affine point isn't a valid hex byte array"]
        ELSE IF ~EncodedPointFromBytes(s.bytes)
        THEN [ok |-> FALSE, point |-> Identity,
              error |-> "invalid sec1 encoded affine point"]
        ELSE IF ~FromEncodedPoint(s.bytes).some
        THEN [ok |-> FALSE, point |-> Identity, error |-> "invalid affine point"]
        ELSE [ok |-> TRUE, point |-> FromEncodedPoint(s.bytes).point, error |-> ""]

\* the serde decoding of Scalar<NistP256>: hex of exactly the scalar width,
\* and a value below n
DeserializeScalar(text) ==
    LET s == HexDecode(text)
    IN  IF s.ok /\ Len(s.bytes) = FieldBytes /\ s.bytes[1] < CurveN
        THEN [ok |-> TRUE, scalar |-> s.bytes[1], error |-> ""]
        ELSE [ok |-> FALSE, scalar |-> 0, error |-> "invalid scalar"]

\* serde_json::from_str::<ShnorrProof>
DeserializeShnorrProof(json) ==
    LET c == deserialize_p256_affine_point_from_ec1(json.commitment)
        s == DeserializeScalar(json.proof)
        k == deserialize_p256_affine_point_from_ec1(json.public_key)
        failed(e) == [ok |-> FALSE, error |-> e, commitment |-> Identity,
                      proof |-> 0, public_key |-> Identity]
    IN  IF json.spec # "p256" THEN failed("unknown variant")
        ELSE IF ~c.ok THEN failed(c.error)
        ELSE IF ~s.ok THEN failed(s.error)
        ELSE IF ~k.ok THEN failed(k.error)
        ELSE [ok |-> TRUE, error |-> "", commitment |-> c.point,
              proof |-> s.scalar, public_key |-> k.point]

NoRequest ==
    [state |-> "none", json |-> [spec |-> "", commitment |-> <<>>, proof |-> <<>>,
                                 public_key |-> <<>>],
     decoded |-> [ok |-> FALSE, error |-> "", commitment |-> Identity,
                  proof |-> 0, public_key |-> Identity]]

\* the point fields a client may send
PointBytes ==
    {<<>>, <<0>>, <<0, 0>>, <<255>>, <<4, 255>>, <<4, 3>>, <<4, 3, 1, 0>>,
     <<2, 3>>, <<3, 3>>, <<2, 0>>, <<2, 5>>, <<6, 3, 1>>,
     <<4, 3, 1>>, <<4, 3, 4>>, <<4, 3, 2>>, <<4, 3, 6>>, <<4, 8, 1>>}

PointTexts == {HexEncode(b) : b \in PointBytes} \cup {<<"0">>, <<"z", "z">>}

ScalarTexts == {HexEncode(<<v>>) : v \in 0..CurveN} \cup {<<>>, <<"0", "g">>}

Requests ==
    [spec : {"p256", "p384"}, commitment : PointTexts, proof : ScalarTexts,
     public_key : PointTexts]

-----------------------------------------------------------------------------
(* Byte strings of crypto/token.rs.  A byte string is kept as its runs     *)
(* <<byte, count>>, no run empty and no two neighbours of the same byte,   *)
(* so that equal strings are equal values.  A byte holds ByteBits bits.    *)

ByteBits == 2
ByteBase == 2^ByteBits

\* Aes256Gcm: NonceSize and the tag appended by encrypt
NonceSize == 12
TagSize == 16
\* ecdsa::Signature<NistP256>: r || s
SignatureSize == 64
\* the u32 length prefix
LengthPrefixSize == 4

Run(b, n) == IF n = 0 THEN <<>> ELSE << <<b, n>> >>

RECURSIVE Size(_)
Size(s) == IF s = <<>> THEN 0 ELSE s[1][2] + Size(Tail(s))

RECURSIVE ByteSum(_)
ByteSum(s) == IF s = <<>> THEN 0 ELSE s[1][1] * s[1][2] + ByteSum(Tail(s))

\* [a, b].concat()
Concat(a, b) ==
    IF a = <<>> THEN b
    ELSE IF b = <<>> THEN a
    ELSE IF a[Len(a)][1] = b[1][1]
         THEN SubSeq(a, 1, Len(a) - 1)
                  \o << <<b[1][1], a[Len(a)][2] + b[1][2]>> >> \o Tail(b)
         ELSE a \o b

\* &s[..n], for n <= Size(s)
RECURSIVE Prefix(_, _)
Prefix(s, n) ==
    IF n = 0 \/ s = <<>> THEN <<>>
    ELSE IF s[1][2] >= n THEN << <<s[1][1], n>> >>
    ELSE <<s[1]>> \o Prefix(Tail(s), n - s[1][2])

\* &s[n..], for n <= Size(s)
RECURSIVE Suffix(_, _)
Suffix(s, n) ==
    IF n = 0 \/ s = <<>> THEN s
    ELSE IF s[1][2] > n THEN << <<s[1][1], s[1][2] - n>> >> \o Tail(s)
    ELSE Suffix(Tail(s), n - s[1][2])

\* s[i], counting from 1
ByteAt(s, i) == Suffix(s, i - 1)[1][1]

\* s with byte i replaced by v
SetByte(s, i, v) == Concat(Prefix(s, i - 1), Concat(Run(v, 1), Suffix(s, i)))

\* every byte of s moved by m, mod ByteBase
Shift(s, m) == [i \in 1..Len(s) |-> <<(s[i][1] + m) % ByteBase, s[i][2]>>]

\* (len as u32): the length modulo the width of the prefix
AsU32(len) == len % (ByteBase^LengthPrefixSize)

\* u32::to_le_bytes
RECURSIVE ToLeBytes(_, _)
ToLeBytes(v, width) ==
    IF width = 0 THEN <<>>
    ELSE Concat(Run(v % ByteBase, 1), ToLeBytes(v \div ByteBase, width - 1))

\* u32::from_le_bytes
RECURSIVE FromLeBytes(_)
FromLeBytes(s) ==
    IF s = <<>> THEN 0
    ELSE ByteAt(s, 1) + ByteBase * FromLeBytes(Suffix(s, 1))

-----------------------------------------------------------------------------
(* The primitives crypto/token.rs is built on.  The AEAD masks every byte  *)
(* with a byte made of key and nonce and appends a tag over key, nonce and *)
(* the masked bytes; the signature is r || s, both made of the signing key *)
(* and the message; a base64 text is the byte string it encodes, or is     *)
(* malformed.                                                              *)

CipherMask(k, nonce) == (k + ByteSum(nonce)) % ByteBase

CipherTag(k, nonce, body) ==
    Concat(Run(k % ByteBase, TagSize \div 4),
    Concat(Run(ByteSum(nonce) % ByteBase, TagSize \div 4),
    Concat(Run(ByteSum(body) % ByteBase, TagSize \div 4),
           Run(Size(body) % ByteBase, TagSize \div 4))))

\* cipher.encrypt(&nonce, plaintext)
CipherEncrypt(k, nonce, plaintext) ==
    LET body == Shift(plaintext, CipherMask(k, nonce))
    IN  Concat(body, CipherTag(k, nonce, body))

\* a cipher that does not compare the tag
CipherDecryptUnauthenticated(k, nonce, bytes) ==
    IF Size(bytes) < TagSize THEN [ok |-> FALSE, plaintext |-> <<>>]
    ELSE [ok |-> TRUE,
          plaintext |-> Shift(Prefix(bytes, Size(bytes) - TagSize),
                              ByteBase - CipherMask(k, nonce))]

\* cipher.decrypt(&nonce, bytes): an error unless the tag is the tag of
\* these bytes under this key and nonce
CipherDecrypt(k, nonce, bytes) ==
    IF Size(bytes) < TagSize THEN [ok |-> FALSE, plaintext |-> <<>>]
    ELSE LET body == Prefix(bytes, Size(bytes) - TagSize)
             tag  == Suffix(bytes, Size(bytes) - TagSize)
         IN  IF tag = CipherTag(k, nonce, body)
             THEN [ok |-> TRUE,
                   plaintext |-> Shift(body, ByteBase - CipherMask(k, nonce))]
             ELSE [ok |-> FALSE, plaintext |-> <<>>]

\* signer.sign(payload)
SignerSign(sk, payload) ==
    Concat(Run(1 + ((sk + ByteSum(payload)) % 2), SignatureSize \div 2),
           Run(1 + ((sk + Size(payload)) % 2), SignatureSize \div 2))

\* verifier.verify(payload, signature).is_ok(), the verifying key of sk
VerifierVerify(sk, payload, signature) == signature = SignerSign(sk, payload)

\* Signature::from_slice: 64 bytes, r and s not zero and below the order
SignatureFromSlice(bytes) ==
    /\ Size(bytes) = SignatureSize
    /\ \A half \in {Prefix(bytes, SignatureSize \div 2),
                    Suffix(bytes, SignatureSize \div 2)} :
           /\ half # Run(0, SignatureSize \div 2)
           /\ half # Run(ByteBase - 1, SignatureSize \div 2)

\* BASE64_STANDARD.encode
Base64Encode(bytes) == [wellFormed |-> TRUE, bytes |-> bytes]

\* BASE64_STANDARD.decode
Base64Decode(text) == [ok |-> text.wellFormed, bytes |-> text.bytes]

NotBase64 == [wellFormed |-> FALSE, bytes |-> <<>>]

-----------------------------------------------------------------------------
(* crypto/token.rs *)

\* Token::sign
TokenSign(payload, sk) == [payload |-> payload, signature |-> SignerSign(sk, payload)]

\* Token::verify
TokenVerify(t, sk) == VerifierVerify(sk, t.payload, t.signature)

\* Token::encrypt, given the nonce that generate_nonce drew
TokenEncrypt(t, k, nonce) ==
    LET bytes == Concat(ToLeBytes(AsU32(Size(t.payload)), LengthPrefixSize),
                        Concat(t.payload, t.signature))
    IN  Base64Encode(Concat(nonce, CipherEncrypt(k, nonce, bytes)))

TokenResult(status, error, payload, signature) ==
    [status |-> status, error |-> error, payload |-> payload, signature |-> signature]

\* Token::decrypt with map_fn the identity; a slice out of range panics
TokenDecrypt(text, k) ==
    LET decoded == Base64Decode(text)
    IN  IF ~decoded.ok THEN TokenResult("err", "Invalid token", <<>>, <<>>)
        ELSE IF Size(decoded.bytes) < NonceSize THEN TokenResult("panic", "", <<>>, <<>>)
        ELSE
        LET nonce == Prefix(decoded.bytes, NonceSize)
            plain == CipherDecrypt(k, nonce, Suffix(decoded.bytes, NonceSize))
        IN  IF ~plain.ok THEN TokenResult("err", "Decryption failed", <<>>, <<>>)
            ELSE IF Size(plain.plaintext) < LengthPrefixSize
                 THEN TokenResult("panic", "", <<>>, <<>>)
            ELSE
            LET bytes  == plain.plaintext
                length == FromLeBytes(Prefix(bytes, LengthPrefixSize))
            IN  IF LengthPrefixSize + length > Size(bytes)
                THEN TokenResult("panic", "", <<>>, <<>>)
                ELSE
                LET payload   == Prefix(Suffix(bytes, LengthPrefixSize), length)
                    signature == Suffix(bytes, LengthPrefixSize + length)
                IN  IF ~SignatureFromSlice(signature)
                    THEN TokenResult("err", "Invalid signature", <<>>, <<>>)
                    ELSE TokenResult("ok", "", payload, signature)

\* the inputs of the token operations
TokenPayloads ==
    {<<>>, Run(1, 1), Run(2, 64), Concat(Run(3, 100), Run(0, 155)),
     Run(1, ByteBase^LengthPrefixSize), Concat(Run(2, ByteBase^LengthPrefixSize), Run(3, 1))}

SigningKeys == {1, 2}
CipherKeys == {1, 2}
Nonces == {Run(1, NonceSize), Concat(Run(0, NonceSize - 1), Run(2, 1))}

\* where a byte of the ciphertext is changed, and by how much
TamperPositions(size) ==
    {1, LengthPrefixSize, LengthPrefixSize + 1, size - TagSize,
     size - TagSize + 1, size}
TamperDeltas == 1..(ByteBase - 1)

\* texts that no call of encrypt made
ForeignTexts ==
    {NotBase64, Base64Encode(<<>>), Base64Encode(Run(1, NonceSize - 1)),
     Base64Encode(Run(1, NonceSize)), Base64Encode(Run(1, NonceSize + TagSize - 1))}
    \cup
    {Base64Encode(Concat(Run(1, NonceSize), CipherEncrypt(1, Run(1, NonceSize), plaintext))) :
        plaintext \in {<<>>, Run(1, LengthPrefixSize - 1), Run(0, LengthPrefixSize),
                       Run(1, LengthPrefixSize),
                       Concat(ToLeBytes(3, LengthPrefixSize), Run(1, 2)),
                       Concat(ToLeBytes(0, LengthPrefixSize), Run(1, SignatureSize)),
                       Concat(ToLeBytes(1, LengthPrefixSize), Run(0, 1 + SignatureSize))}}

NoToken == [signed |-> FALSE, payload |-> <<>>, signature |-> <<>>, signer |-> 0]
NoWire == [sent |-> FALSE, text |-> NotBase64, key |-> 0, tampered |-> FALSE]
NoDecrypt ==
    [called |-> FALSE, of |-> "none", text |-> NotBase64, key |-> 0,
     result |-> TokenResult("none", "", <<>>, <<>>)]

-----------------------------------------------------------------------------
(* crypto/csprng.rs *)

\* CHACHA_BLOCK_SIZE, scaled from 64 bytes
CHACHA_BLOCK_SIZE == 4
\* width of ChaChaRng::counter (u32), scaled
CounterBits == 2

MaxKeystream == 20
MaxFill == 9

\* what getrandom may write into the key and into the nonce
ChaChaKeys == {1, 2}
ChaChaNonces == {1, 2}
Entropy(values) == {[ok |-> TRUE, value |-> v] : v \in values}
                       \cup {[ok |-> FALSE, value |-> 0]}

\* chacha_block(key, nonce, counter): the block function is taken as injective
\* in (key, nonce, counter, position); no byte of it equals the zero of the
\* placeholder block
chacha_block(k, nonce, counter) ==
    [j \in 1..CHACHA_BLOCK_SIZE |-> k * 1000 + nonce * 100 + counter * 10 + j]

NoRng == [state |-> "none", key |-> 0, nonce |-> 0, counter |-> 0,
          block |-> [j \in 1..CHACHA_BLOCK_SIZE |-> 0], offset |-> 0]

NoDraw == [op |-> "none", len |-> 0, start |-> 0]

\* ChaChaRng::new(): each getrandom(..).expect(..) panics when the source fails
ChaChaRngNew(keyEntropy, nonceEntropy) ==
    IF ~keyEntropy.ok \/ ~nonceEntropy.ok
    THEN [NoRng EXCEPT !.state = "panic"]
    ELSE [state |-> "ready", key |-> keyEntropy.value, nonce |-> nonceEntropy.value,
          counter |-> 0, block |-> [j \in 1..CHACHA_BLOCK_SIZE |-> 0],
          offset |-> CHACHA_BLOCK_SIZE]

\* a refill that computes the block but leaves the counter where it is
refillSameCounter(r) ==
    [r EXCEPT !.block = chacha_block(r.key, r.nonce, r.counter),
              !.offset = 0]

\* ChaChaRng::refill
refill(r) ==
    [r EXCEPT !.block = chacha_block(r.key, r.nonce, r.counter),
              !.counter = (r.counter + 1) % (2^CounterBits),
              !.offset = 0]

\* ChaChaRng::next_u8: the generator after the call and the byte returned
next_u8(r) ==
    LET r1 == IF r.offset = CHACHA_BLOCK_SIZE THEN refill(r) ELSE r
    IN  [rng |-> [r1 EXCEPT !.offset = r1.offset + 1],
         out |-> <<r1.block[r1.offset + 1]>>]

\* block[from..to] of the generator, zero-based and half-open as in the source
BlockSlice(r, from, to) == [i \in 1..(to - from) |-> r.block[from + i]]

\* fill_bytes, one chunk of the buffer
FillChunk(r, len) ==
    LET remaining == CHACHA_BLOCK_SIZE - r.offset
    IN  IF len > remaining
        THEN LET head == BlockSlice(r, r.offset, CHACHA_BLOCK_SIZE)
                 r1   == refill(r)
                 take == len - remaining
             IN  [rng |-> [r1 EXCEPT !.offset = take],
                  out |-> head \o BlockSlice(r1, 0, take)]
        ELSE [rng |-> [r EXCEPT !.offset = r.offset + len],
              out |-> BlockSlice(r, r.offset, r.offset + len)]

\* fill_bytes(buffer): the buffer is served in chunks of CHACHA_BLOCK_SIZE
RECURSIVE fill_bytes(_, _)
fill_bytes(r, len) ==
    IF len = 0 THEN [rng |-> r, out |-> <<>>]
    ELSE LET size  == IF len < CHACHA_BLOCK_SIZE THEN len ELSE CHACHA_BLOCK_SIZE
             first == FillChunk(r, size)
             rest  == fill_bytes(first.rng, len - size)
         IN  [rng |-> rest.rng, out |-> first.out \o rest.out]

-----------------------------------------------------------------------------
(* crypto/elliptic_curve.rs *)

\* bits of a u8, scaled from 8: byte lengths are bits / OctetBits
OctetBits == 3

MaxScalar == 12
MaxAttempts == 2

\* EllipticCurvePoint::new(x, y); `panic` marks an evaluation that panicked
EllipticCurvePointNew(x, y) == [x |-> x, y |-> y, infinity |-> FALSE, panic |-> FALSE]

\* EllipticCurvePoint::infinity()
EllipticCurvePointInfinity == [x |-> 0, y |-> 0, infinity |-> TRUE, panic |-> FALSE]

Panicked == [x |-> 0, y |-> 0, infinity |-> FALSE, panic |-> TRUE]

\* EllipticCurve::params(): the named curve, scaled to y^2 = x^3 + x + 1 over
\* GF(7) with a group of prime order 5 (an order that fills its bytes, as the
\* 256-bit order of secp256r1 does), and Custom curves
EllipticCurves ==
    { [name |-> "secp256r1", p |-> 7, a |-> 1, b |-> 1,
       g |-> EllipticCurvePointNew(0, 1), n |-> 5],
      [name |-> "Custom", p |-> 5, a |-> 4, b |-> 2,
       g |-> EllipticCurvePointNew(3, 1), n |-> 3],
      [name |-> "Custom", p |-> 5, a |-> 0, b |-> 4,
       g |-> EllipticCurvePointNew(3, 1), n |-> 6],
      [name |-> "Custom", p |-> 7, a |-> 1, b |-> 6,
       g |-> EllipticCurvePointNew(1, 1), n |-> 11] }

\* mod_inv(a, p_field): modinv(..).expect(..) panics when a has no inverse
mod_inv(a, p_field) ==
    IF \E i \in 1..(p_field - 1) : (i * a) % p_field = 1
    THEN [panic |-> FALSE,
          value |-> CHOOSE i \in 1..(p_field - 1) : (i * a) % p_field = 1]
    ELSE [panic |-> TRUE, value |-> 0]

\* EllipticCurvePoint::add; BigUint subtraction panics below zero
add(P, Q, params) ==
    IF P.panic \/ Q.panic THEN Panicked
    ELSE IF P.infinity THEN Q
    ELSE IF Q.infinity THEN P
    ELSE IF P.x = Q.x /\ P.y # Q.y THEN EllipticCurvePointInfinity
    ELSE LET p == params.p
             inv == IF P.x = Q.x
                    THEN mod_inv(2 * P.y, p)
                    ELSE mod_inv((Q.x + p - P.x) % p, p)
             lambda == (IF P.x = Q.x
                        THEN (3 * P.x * P.x + params.a) * inv.value
                        ELSE ((Q.y + p - P.y) % p) * inv.value) % p
             square == lambda * lambda
         IN  IF inv.panic THEN Panicked
             ELSE IF square < P.x \/ square - P.x < Q.x THEN Panicked
             ELSE LET x3 == (square - P.x - Q.x) % p
                      dx == (P.x + p - x3) % p
                      y3 == (lambda * dx + p - P.y) % p
                  IN  EllipticCurvePointNew(x3, y3)

\* the loop of EllipticCurvePoint::mul
RECURSIVE MulLoop(_, _, _, _)
MulLoop(k, current, result, params) ==
    IF k = 0 \/ current.panic \/ result.panic
    THEN (IF current.panic THEN Panicked ELSE result)
    ELSE MulLoop(k \div 2,
                 add(current, current, params),
                 IF k % 2 = 1 THEN add(result, current, params) ELSE result,
                 params)

\* EllipticCurvePoint::mul
mul(P, k, params) == MulLoop(k, P, EllipticCurvePointInfinity, params)

\* the points the curve equation admits, and infinity
CurvePoints(params) ==
    {EllipticCurvePointInfinity} \cup
    {EllipticCurvePointNew(x, y) : <<x, y>> \in
        {c \in (0..(params.p - 1)) \X (0..(params.p - 1)) :
            (c[2] * c[2]) % params.p
                = (c[1] * c[1] * c[1] + params.a * c[1] + params.b) % params.p}}

\* BigUint::bits
RECURSIVE Bits(_)
Bits(n) == IF n = 0 THEN 0 ELSE 1 + Bits(n \div 2)

\* BigUint::from_bytes_le
RECURSIVE from_bytes_le(_)
from_bytes_le(bytes) ==
    IF bytes = <<>> THEN 0
    ELSE bytes[1] + (2^OctetBits) * from_bytes_le(Tail(bytes))

\* the buffers fill_bytes can leave in vec![0u8; len]
Buffers(len) == [1..len -> 0..(2^OctetBits - 1)]

\* random_scalar, one turn of its loop: the buffer has (n.bits() >> 3) bytes
RandomScalarLength(n) == Bits(n) \div OctetBits

random_scalar(n, bytes) ==
    LET k == from_bytes_le(bytes)
    IN  [returned |-> k < n, k |-> k]

\* derive_public_key
derive_public_key(params, private_key) == mul(params.g, private_key, params)

NoSampler ==
    [op |-> "none", pc |-> "idle", curve |-> CHOOSE c \in EllipticCurves : c.name = "secp256r1",
     attempts |-> 0, drawn |-> 0, k |-> 0, private_key |-> 0,
     public_key |-> EllipticCurvePointInfinity, cause |-> ""]

NoCalc ==
    [op |-> "none", curve |-> CHOOSE c \in EllipticCurves : c.name = "secp256r1",
     P |-> EllipticCurvePointInfinity, Q |-> EllipticCurvePointInfinity,
     R |-> EllipticCurvePointInfinity, k |-> 0, a |-> 0, b |-> 0, out |-> <<>>]

-----------------------------------------------------------------------------
(* data/id.rs *)

\* the bit layout, scaled from 64 + 12 + 16 + 16 + 20 = 128 bits
TIMESTAMP_BITS == 4
SEQUENCE_BITS == 1
SERVICE_ID_BITS == 2
WORKER_ID_BITS == 2
RANDOM_BITS == 3

\* width of a u16 field of Identifier, scaled from 16: as wide as service_id
\* and worker_id, wider than SEQUENCE_BITS, narrower than RANDOM_BITS
U16Bits == 2
\* width of u128, scaled: the sum of the five widths
U128Bits == 12

WORKER_ID_OFFSET == RANDOM_BITS
SERVICE_ID_OFFSET == WORKER_ID_OFFSET + WORKER_ID_BITS
SEQUENCE_OFFSET == SERVICE_ID_OFFSET + SERVICE_ID_BITS
TIMESTAMP_OFFSET == SEQUENCE_OFFSET + SEQUENCE_BITS

\* x << n on u128, x >> n, x & ((1 << n) - 1), x as u16
Shl(x, n) == (x * 2^n) % (2^U128Bits)
Shr(x, n) == x \div (2^n)
Mask(x, n) == x % (2^n)
AsU16(x) == x % (2^U16Bits)

\* a | b
RECURSIVE BitOr(_, _)
BitOr(a, b) ==
    IF a = 0 THEN b
    ELSE IF b = 0 THEN a
    ELSE (IF a % 2 = 1 \/ b % 2 = 1 THEN 1 ELSE 0) + 2 * BitOr(a \div 2, b \div 2)

\* struct Identifier; timestamp in milliseconds since the epoch
Identifier(timestamp, sequence, service_id, worker_id, random) ==
    [timestamp |-> timestamp, sequence |-> sequence, service_id |-> service_id,
     worker_id |-> worker_id, random |-> random]

\* impl From<Identifier> for u128
IdentifierToU128(id) ==
    BitOr(Shl(id.timestamp, TIMESTAMP_OFFSET),
    BitOr(Shl(id.sequence, SEQUENCE_OFFSET),
    BitOr(Shl(id.service_id, SERVICE_ID_OFFSET),
    BitOr(Shl(id.worker_id, WORKER_ID_BITS),
          id.random))))

\* impl From<u128> for Identifier
IdentifierFromU128(bits) ==
    Identifier(Mask(Shr(bits, TIMESTAMP_OFFSET), TIMESTAMP_BITS),
               AsU16(Mask(Shr(bits, SEQUENCE_OFFSET), SEQUENCE_BITS)),
               AsU16(Mask(Shr(bits, SERVICE_ID_OFFSET), SERVICE_ID_BITS)),
               AsU16(Mask(Shr(bits, WORKER_ID_BITS), WORKER_ID_BITS)),
               AsU16(Mask(bits, RANDOM_BITS)))

\* Option<Identifier>, or a panic in place of a result
NoneIdentifier == [some |-> FALSE, id |-> Identifier(0, 0, 0, 0, 0), panic |-> FALSE]
SomeIdentifier(id) == [some |-> TRUE, id |-> id, panic |-> FALSE]
PanickedIdentifier == [some |-> FALSE, id |-> Identifier(0, 0, 0, 0, 0), panic |-> TRUE]

\* format!("{:032x}", ..): U128Bits / 4 digits, zero padded
HexWidth == U128Bits \div 4

as_hex(id) ==
    LET v == IdentifierToU128(id)
    IN  [i \in 1..HexWidth |-> HexDigits[((v \div (16^(HexWidth - i))) % 16) + 1]]

\* u128::from_str_radix(hex, 16) on a text of digits
RECURSIVE FromStrRadix16(_)
FromStrRadix16(text) ==
    IF text = <<>> THEN 0
    ELSE 16 * FromStrRadix16(SubSeq(text, 1, Len(text) - 1))
             + HexValue(text[Len(text)])

\* Identifier::from_hex: empty text, a foreign character or an overflow is None
from_hex(text) ==
    IF text = <<>> \/ \E i \in 1..Len(text) : ~IsHexDigit(text[i])
    THEN NoneIdentifier
    ELSE IF FromStrRadix16(text) >= 2^U128Bits
    THEN NoneIdentifier
    ELSE SomeIdentifier(IdentifierFromU128(FromStrRadix16(text)))

\* u128::to_be_bytes / from_be_bytes, bytes of ByteBits bits
U128Bytes == U128Bits \div ByteBits

to_be_bytes(v) == [i \in 1..U128Bytes |-> (v \div (ByteBase^(U128Bytes - i))) % ByteBase]

RECURSIVE from_be_bytes(_)
from_be_bytes(bytes) ==
    IF bytes = <<>> THEN 0
    ELSE ByteBase * from_be_bytes(SubSeq(bytes, 1, Len(bytes) - 1)) + bytes[Len(bytes)]

\* Identifier::as_base64
as_base64(id) == Base64Encode(to_be_bytes(IdentifierToU128(id)))

\* Identifier::from_base64: split_at panics on fewer bytes than a u128 has
from_base64(text) ==
    LET decoded == Base64Decode(text)
    IN  IF ~decoded.ok THEN NoneIdentifier
        ELSE IF Len(decoded.bytes) < U128Bytes THEN PanickedIdentifier
        ELSE IF Len(decoded.bytes) > U128Bytes THEN NoneIdentifier
        ELSE SomeIdentifier(IdentifierFromU128(from_be_bytes(decoded.bytes)))

\* the values the fields of an Identifier can hold
Timestamps == 0..(2^TIMESTAMP_BITS - 1)
U16 == 0..(2^U16Bits - 1)
Identifiers ==
    {Identifier(t, q, s, w, r) : t \in Timestamps, q \in U16, s \in U16, w \in U16, r \in U16}

NoIdent ==
    [called |-> FALSE, id |-> Identifier(0, 0, 0, 0, 0), bits |-> 0,
     unpacked |-> Identifier(0, 0, 0, 0, 0),
     hex |-> <<>>, from_hex |-> NoneIdentifier,
     base64 |-> NotBase64, from_base64 |-> NoneIdentifier]

\* bounds of the generator runs
MaxIds == 4
MaxClock == 2

\* IdentifierGenerator::new(service_id, worker_id); overflow_checks tells
\* whether the build panics on integer overflow or wraps
IdentifierGeneratorNew(service_id, worker_id, overflow_checks) ==
    [state |-> "ready", timestamp |-> 0, sequence |-> 0,
     service_id |-> service_id, worker_id |-> worker_id,
     overflow_checks |-> overflow_checks]

NoGenerator ==
    [state |-> "none", timestamp |-> 0, sequence |-> 0, service_id |-> 0,
     worker_id |-> 0, overflow_checks |-> FALSE]

\* IdentifierGenerator::generate_bits with the clock at `now` milliseconds and
\* `random` drawn: the generator after the call, the bits returned, and
\* whether self.sequence + 1 left the u16
generate_bits(g, now, random) ==
    LET overflow == now = g.timestamp /\ g.sequence + 1 >= 2^U16Bits
        sequence == IF now = g.timestamp THEN AsU16(g.sequence + 1) ELSE 0
    IN  IF overflow /\ g.overflow_checks
        THEN [generator |-> [g EXCEPT !.state = "panic"], overflow |-> TRUE,
              panic |-> TRUE, bits |-> 0]
        ELSE [generator |-> [g EXCEPT !.timestamp = now, !.sequence = sequence],
              overflow |-> overflow, panic |-> FALSE,
              bits |-> BitOr(Shl(now, TIMESTAMP_OFFSET),
                       BitOr(Shl(sequence, SEQUENCE_OFFSET),
                       BitOr(Shl(g.service_id, SERVICE_ID_OFFSET),
                       BitOr(Shl(g.worker_id, WORKER_ID_BITS),
                             random))))]

\* the (service_id, worker_id) pairs generators are made with, and the draws
\* of self.rng.gen::<u16>()
GeneratorIds == {<<0, 0>>, <<1, 2>>}
RandomDraws == {0, 3}

-----------------------------------------------------------------------------
(* service/mod.rs *)

\* the client store: one client with its signing key and its users by email
ClientStore ==
    { [id |-> 1, signing_key |-> 1,
       users |-> { [email |-> <<10>>, id |-> 1], [email |-> <<11>>, id |-> 2] }] }

\* the client ids and emails a request may name: stored ones and unknown ones
ClientIds == {1, 2}
Emails == {<<10>>, <<11>>, <<12>>}

\* the user whose key pair `key` is
KeyOwnerEmail == <<10>>

\* impl From<&UserLoginPayload> for Vec<u8>: the client id at its fixed width,
\* then the email
UserLoginPayloadBytes(client_id, email) == <<client_id>> \o email

\* UserTokenPayload as the bytes that get signed
UserTokenPayload(user_id, client_id) == Concat(Run(user_id, 1), Run(client_id, 1))

NoLoginToken == [payload |-> <<>>, signature |-> <<>>]

LoginResult(status, error, user_id, tok) ==
    [status |-> status, error |-> error, user_id |-> user_id, token |-> tok]

\* UserAuthentication::login, given the digest challenge() computes
UserAuthenticationLogin(req, digest) ==
    LET verified == verify(req.public_key, req.proof, req.commitment, digest)
        clients  == {c \in ClientStore : c.id = req.client_id}
    IN  IF verified = "panic" THEN LoginResult("panic", "", 0, NoLoginToken)
        ELSE IF verified = "false"
        THEN LoginResult("err", "Invalid proof", 0, NoLoginToken)
        ELSE IF clients = {}
        THEN LoginResult("err", "Client not found", 0, NoLoginToken)
        ELSE LET client == CHOOSE c \in clients : TRUE
                 users  == {u \in client.users : u.email = req.email}
             IN  IF users = {}
                 THEN LoginResult("err", "User not found", 0, NoLoginToken)
                 ELSE LET user == CHOOSE u \in users : TRUE
                      IN  LoginResult("ok", "", user.id,
                              TokenSign(UserTokenPayload(user.id, req.client_id),
                                        client.signing_key))

NoLogin ==
    [state |-> "none", requester |-> 0, proved |-> <<>>,
     request |-> [client_id |-> 0, email |-> <<>>, commitment |-> Identity,
                  proof |-> 0, public_key |-> Identity],
     verified |-> "none",
     result |-> LoginResult("none", "", 0, NoLoginToken)]

-----------------------------------------------------------------------------
(* State machine *)

NoVerify ==
    [called |-> FALSE, of |-> 0, payload |-> <<>>, public_key |-> Identity,
     proof |-> 0, commitment |-> Identity, digest |-> 0, result |-> "none"]

Init ==
    /\ key \in {[private_key |-> x, public_key |-> GroupMul(Generator, x)] : x \in PrivateKeys}
    /\ oracle = {}
    /\ rngDraws = <<>>
    /\ proofs = <<>>
    /\ lastVerify = NoVerify
    /\ request = NoRequest
    /\ token = NoToken
    /\ wire = NoWire
    /\ decrypted = NoDecrypt
    /\ rng = NoRng
    /\ keystream = <<>>
    /\ lastDraw = NoDraw
    /\ sampler = NoSampler
    /\ calc = NoCalc
    /\ ident = NoIdent
    /\ generator = NoGenerator
    /\ issued = <<>>
    /\ login = NoLogin

\* a call proof(payload, key.private_key)
ProofCall(payload) ==
    \E drawn \in Scalars, digest \in HashValues :
        LET cm    == commitment(rngDraws, drawn)
            input == ChallengeInput(cm.commitment, payload)
            res   == proof(key.private_key, cm, digest)
        IN  /\ Sha512(input, digest)
            /\ oracle' = Record(input, digest)
            /\ rngDraws' = cm.draws
            /\ proofs' = Append(proofs,
                   [status |-> res.status, payload |-> payload, draw |-> cm.draw,
                    nonce |-> cm.nonce, commitment |-> cm.commitment,
                    digest |-> digest, challenge |-> res.challenge,
                    proof |-> res.proof])
            /\ UNCHANGED <<key, lastVerify, request, tokenVars, coreVars>>

Proof(payload) == Len(proofs) < MaxProofs /\ ProofCall(payload)

\* a call verify(payload, public_key, s, R) on the (s, R) that proof i returned
Verify(i, payload, public_key) ==
    /\ i \in 1..Len(proofs)
    /\ proofs[i].status = "ok"
    /\ \E digest \in HashValues :
        LET input == ChallengeInput(proofs[i].commitment, payload)
        IN  /\ Sha512(input, digest)
            /\ oracle' = Record(input, digest)
            /\ lastVerify' =
                   [called |-> TRUE, of |-> i, payload |-> payload,
                    public_key |-> public_key, proof |-> proofs[i].proof,
                    commitment |-> proofs[i].commitment, digest |-> digest,
                    result |-> verify(public_key, proofs[i].proof,
                                      proofs[i].commitment, digest)]
    /\ UNCHANGED <<key, rngDraws, proofs, request, tokenVars, coreVars>>

Next ==
    \/ \E payload \in Payloads : Proof(payload)
    \/ \E i \in 1..MaxProofs, payload \in Payloads, public_key \in Points :
           Verify(i, payload, public_key)

Spec == Init /\ [][Next]_vars

\* the request text arrives and is decoded
Deserialize(json) ==
    /\ request.state = "none"
    /\ request' = [state |-> "decoded", json |-> json,
                   decoded |-> DeserializeShnorrProof(json)]
    /\ UNCHANGED <<key, oracle, rngDraws, proofs, lastVerify, tokenVars, coreVars>>

\* ShnorrProof::verify(payload) on the decoded request
ShnorrProofVerify(payload) ==
    /\ request.state = "decoded"
    /\ request.decoded.ok
    /\ \E digest \in HashValues :
        LET d     == request.decoded
            input == ChallengeInput(d.commitment, payload)
        IN  /\ Sha512(input, digest)
            /\ oracle' = Record(input, digest)
            /\ lastVerify' =
                   [called |-> TRUE, of |-> 0, payload |-> payload,
                    public_key |-> d.public_key, proof |-> d.proof,
                    commitment |-> d.commitment, digest |-> digest,
                    result |-> verify(d.public_key, d.proof, d.commitment, digest)]
    /\ UNCHANGED <<key, rngDraws, proofs, request, tokenVars, coreVars>>

WireNext ==
    \/ \E json \in Requests : Deserialize(json)
    \/ \E payload \in Payloads : ShnorrProofVerify(payload)

WireSpec == Init /\ [][WireNext]_vars

\* Token::sign(payload, signer)
Sign(payload, sk) ==
    /\ ~token.signed
    /\ token' = [signed |-> TRUE, payload |-> payload,
                 signature |-> TokenSign(payload, sk).signature, signer |-> sk]
    /\ UNCHANGED <<schnorrVars, coreVars, wire, decrypted>>

\* token.encrypt(key, rng)
Encrypt(k, nonce) ==
    /\ token.signed
    /\ ~wire.sent
    /\ wire' = [sent |-> TRUE, text |-> TokenEncrypt(token, k, nonce), key |-> k,
                tampered |-> FALSE]
    /\ UNCHANGED <<schnorrVars, coreVars, token, decrypted>>

\* one byte of the ciphertext (the bytes after the nonce) changes on the way
Tamper(position, delta) ==
    /\ wire.sent
    /\ ~wire.tampered
    /\ LET at == NonceSize + position
       IN  wire' = [wire EXCEPT
               !.text = Base64Encode(SetByte(wire.text.bytes, at,
                            (ByteAt(wire.text.bytes, at) + delta) % ByteBase)),
               !.tampered = TRUE]
    /\ UNCHANGED <<schnorrVars, coreVars, token, decrypted>>

\* Token::decrypt(text on the wire, key, identity)
Decrypt(k) ==
    /\ wire.sent
    /\ decrypted' = [called |-> TRUE, of |-> "wire", text |-> wire.text, key |-> k,
                     result |-> TokenDecrypt(wire.text, k)]
    /\ UNCHANGED <<schnorrVars, coreVars, token, wire>>

\* Token::decrypt(any other text, key, identity)
DecryptForeign(text, k) ==
    /\ decrypted' = [called |-> TRUE, of |-> "foreign", text |-> text, key |-> k,
                     result |-> TokenDecrypt(text, k)]
    /\ UNCHANGED <<schnorrVars, coreVars, token, wire>>

TokenNext ==
    \/ \E payload \in TokenPayloads, sk \in SigningKeys : Sign(payload, sk)
    \/ \E k \in CipherKeys, nonce \in Nonces : Encrypt(k, nonce)
    \/ \E position \in TamperPositions(Size(wire.text.bytes) - NonceSize),
          delta \in TamperDeltas : Tamper(position, delta)
    \/ \E k \in CipherKeys : Decrypt(k)
    \/ \E text \in ForeignTexts, k \in CipherKeys : DecryptForeign(text, k)

TokenSpec == Init /\ [][TokenNext]_vars

\* the prover alone, making proof after proof under its key
NonceNext == \E payload \in Payloads : Len(proofs) < MaxNonceProofs /\ ProofCall(payload)

NonceSpec == Init /\ [][NonceNext]_vars

\* ChaChaRng::new()
New(keyEntropy, nonceEntropy) ==
    /\ rng.state = "none"
    /\ rng' = ChaChaRngNew(keyEntropy, nonceEntropy)
    /\ UNCHANGED <<notRngVars, keystream, lastDraw>>

\* rng.next_u8()
NextU8 ==
    /\ rng.state = "ready"
    /\ Len(keystream) < MaxKeystream
    /\ LET res == next_u8(rng)
       IN  /\ rng' = res.rng
           /\ keystream' = keystream \o res.out
    /\ lastDraw' = [op |-> "next_u8", len |-> 1, start |-> Len(keystream)]
    /\ UNCHANGED notRngVars

\* rng.fill_bytes(&mut buffer) with a buffer of len bytes
FillBytes(len) ==
    /\ rng.state = "ready"
    /\ Len(keystream) + len <= MaxKeystream
    /\ LET res == fill_bytes(rng, len)
       IN  /\ rng' = res.rng
           /\ keystream' = keystream \o res.out
    /\ lastDraw' = [op |-> "fill_bytes", len |-> len, start |-> Len(keystream)]
    /\ UNCHANGED notRngVars

RngNext ==
    \/ \E keyEntropy \in Entropy(ChaChaKeys), nonceEntropy \in Entropy(ChaChaNonces) :
           New(keyEntropy, nonceEntropy)
    \/ NextU8
    \/ \E len \in 0..MaxFill : FillBytes(len)

RngSpec == Init /\ [][RngNext]_vars

\* random_scalar() or generate_key_pair() is called on a curve
Call(op, curve) ==
    /\ sampler.pc = "idle"
    /\ sampler' = [sampler EXCEPT !.op = op, !.curve = curve, !.pc = "new"]
    /\ UNCHANGED <<notCurveVars, calc>>

\* random_scalar: let mut rng = ChaChaRng::new()
RandomScalarNew(keyEntropy, nonceEntropy) ==
    /\ sampler.pc = "new"
    /\ sampler' =
           IF ChaChaRngNew(keyEntropy, nonceEntropy).state = "panic"
           THEN [sampler EXCEPT !.pc = "panic", !.cause = "entropy"]
           ELSE [sampler EXCEPT !.pc = "loop"]
    /\ UNCHANGED <<notCurveVars, calc>>

\* random_scalar: one turn of the loop on the bytes the generator gave; when
\* it returns to generate_key_pair, the zero check of random_scalar_key and
\* derive_public_key follow
RandomScalarDraw(bytes) ==
    /\ sampler.pc = "loop"
    /\ bytes \in Buffers(RandomScalarLength(sampler.curve.n))
    /\ LET res == random_scalar(sampler.curve.n, bytes)
           pub == derive_public_key(sampler.curve, res.k)
           seen == [sampler EXCEPT !.drawn = Len(bytes), !.k = res.k]
       IN  sampler' =
               IF ~res.returned
               THEN [seen EXCEPT !.attempts =
                         IF sampler.attempts < MaxAttempts
                         THEN sampler.attempts + 1 ELSE sampler.attempts]
               ELSE IF sampler.op = "random_scalar"
               THEN [seen EXCEPT !.pc = "done"]
               ELSE IF res.k = 0
               THEN [seen EXCEPT !.pc = "new"]
               ELSE IF pub.panic
               THEN [seen EXCEPT !.pc = "panic", !.cause = "mul",
                                 !.private_key = res.k]
               ELSE [seen EXCEPT !.pc = "done", !.private_key = res.k,
                                 !.public_key = pub]
    /\ UNCHANGED <<notCurveVars, calc>>

SamplerNext ==
    \/ \E op \in {"random_scalar", "generate_key_pair"}, curve \in EllipticCurves :
           Call(op, curve)
    \/ \E keyEntropy \in Entropy(ChaChaKeys), nonceEntropy \in Entropy(ChaChaNonces) :
           RandomScalarNew(keyEntropy, nonceEntropy)
    \/ \E bytes \in Buffers(0) \cup Buffers(1) : RandomScalarDraw(bytes)

SamplerSpec == Init /\ [][SamplerNext]_vars

\* the byte source is fair: the generator gets constructed, and a buffer that
\* ends the loops comes sooner or later if one can come
FairBytes ==
    /\ WF_vars(\E keyEntropy \in Entropy(ChaChaKeys), nonceEntropy \in Entropy(ChaChaNonces) :
                   RandomScalarNew(keyEntropy, nonceEntropy))
    /\ SF_vars(\E bytes \in Buffers(0) \cup Buffers(1) :
                   RandomScalarDraw(bytes) /\ sampler'.pc \in {"done", "panic"})

KeyGenSpec == Init /\ [][SamplerNext]_vars /\ FairBytes

\* add is evaluated on points P, Q, R of a curve, in both orders and groupings
Add(curve, P, Q, R) ==
    /\ calc.op = "none"
    /\ calc' = [op |-> "add", curve |-> curve, P |-> P, Q |-> Q, R |-> R,
                k |-> 0, a |-> 0, b |-> 0,
                out |-> << add(P, Q, curve), add(Q, P, curve),
                           add(add(P, Q, curve), R, curve),
                           add(P, add(Q, R, curve), curve),
                           add(P, EllipticCurvePointInfinity, curve),
                           add(EllipticCurvePointInfinity, P, curve) >>]
    /\ UNCHANGED <<notCurveVars, sampler>>

\* mul(P, k) is evaluated on a point of a curve
Mul(curve, P, k) ==
    /\ calc.op = "none"
    /\ calc' = [op |-> "mul", curve |-> curve, P |-> P,
                Q |-> EllipticCurvePointInfinity, R |-> EllipticCurvePointInfinity,
                k |-> k, a |-> 0, b |-> 0,
                out |-> << mul(P, k, curve) >>]
    /\ UNCHANGED <<notCurveVars, sampler>>

\* mul(g, (a + b) mod n) and add(mul(g, a), mul(g, b)) are evaluated
Distribute(curve, a, b) ==
    /\ calc.op = "none"
    /\ calc' = [op |-> "distribute", curve |-> curve, P |-> curve.g,
                Q |-> EllipticCurvePointInfinity, R |-> EllipticCurvePointInfinity,
                k |-> 0, a |-> a, b |-> b,
                out |-> << mul(curve.g, (a + b) % curve.n, curve),
                           add(mul(curve.g, a, curve), mul(curve.g, b, curve), curve),
                           mul(curve.g, 0, curve) >>]
    /\ UNCHANGED <<notCurveVars, sampler>>

CurveNext ==
    \/ \E curve \in EllipticCurves :
           \E P \in CurvePoints(curve), Q \in CurvePoints(curve), R \in CurvePoints(curve) :
               Add(curve, P, Q, R)
    \/ \E curve \in EllipticCurves :
           \E P \in CurvePoints(curve), k \in 0..MaxScalar : Mul(curve, P, k)
    \/ \E curve \in EllipticCurves :
           \E a \in 0..(curve.n - 1), b \in 0..(curve.n - 1) : Distribute(curve, a, b)

CurveSpec == Init /\ [][CurveNext]_vars

\* an Identifier is written as hex and as base64, and both are read back
RoundTrip(id) ==
    /\ ~ident.called
    /\ ident' = [called |-> TRUE, id |-> id, bits |-> IdentifierToU128(id),
                 unpacked |-> IdentifierFromU128(IdentifierToU128(id)),
                 hex |-> as_hex(id), from_hex |-> from_hex(as_hex(id)),
                 base64 |-> as_base64(id),
                 from_base64 |-> from_base64(as_base64(id))]
    /\ UNCHANGED <<notIdVars, generator, issued>>

IdentifierNext == \E id \in Identifiers : RoundTrip(id)

IdentifierSpec == Init /\ [][IdentifierNext]_vars

\* IdentifierGenerator::new
GeneratorNew(service_id, worker_id, overflow_checks) ==
    /\ generator.state = "none"
    /\ generator' = IdentifierGeneratorNew(service_id, worker_id, overflow_checks)
    /\ UNCHANGED <<notIdVars, ident, issued>>

\* generator.generate_bits() / generator.generate() (op), with the clock
\* reading `now` and the draw `random`
Generate(op, now, random) ==
    /\ generator.state = "ready"
    /\ Len(issued) < MaxIds
    /\ LET res == generate_bits(generator, now, random)
       IN  /\ generator' = res.generator
           /\ issued' = Append(issued,
                  [op |-> op, now |-> now, random |-> random, panic |-> res.panic,
                   overflow |-> res.overflow, bits |-> res.bits,
                   id |-> IdentifierFromU128(res.bits)])
    /\ UNCHANGED <<notIdVars, ident>>

GeneratorNext ==
    \/ \E ids \in GeneratorIds, overflow_checks \in BOOLEAN :
           GeneratorNew(ids[1], ids[2], overflow_checks)
    \/ \E op \in {"generate_bits", "generate"}, now \in 0..MaxClock, random \in RandomDraws :
           Generate(op, now, random)

GeneratorSpec == Init /\ [][GeneratorNext]_vars

\* a requester who holds the private key x proves possession of it over the
\* payload (client_id, proved) and sends a UserLoginRequest that names the
\* email `sent` and carries x*g as public_key
LoginRequest(x, client_id, proved, sent) ==
    /\ login.state = "none"
    /\ \E drawn \in Scalars, digest \in HashValues :
        LET cm    == commitment(rngDraws, drawn)
            input == ChallengeInput(cm.commitment, UserLoginPayloadBytes(client_id, proved))
            res   == proof(x, cm, digest)
        IN  /\ Sha512(input, digest)
            /\ res.status = "ok"
            /\ oracle' = Record(input, digest)
            /\ login' = [login EXCEPT
                   !.state = "requested", !.requester = x, !.proved = proved,
                   !.request = [client_id |-> client_id, email |-> sent,
                                commitment |-> cm.commitment, proof |-> res.proof,
                                public_key |-> GroupMul(Generator, x)]]
    /\ UNCHANGED notLoginVars

\* UserAuthentication::login(request, ..) runs
Login ==
    /\ login.state = "requested"
    /\ \E digest \in HashValues :
        LET req   == login.request
            input == ChallengeInput(req.commitment,
                                    UserLoginPayloadBytes(req.client_id, req.email))
        IN  /\ Sha512(input, digest)
            /\ oracle' = Record(input, digest)
            /\ login' = [login EXCEPT
                   !.state = "served",
                   !.verified = verify(req.public_key, req.proof, req.commitment, digest),
                   !.result = UserAuthenticationLogin(req, digest)]
    /\ UNCHANGED notLoginVars

LoginNext ==
    \/ \E x \in PrivateKeys, client_id \in ClientIds, proved \in Emails, sent \in Emails :
           LoginRequest(x, client_id, proved, sent)
    \/ Login

LoginSpec == Init /\ [][LoginNext]_vars

-----------------------------------------------------------------------------
(* The claims about the Schnorr protocol *)

VerifiedProof == proofs[lastVerify.of]

OtherPublicKeys ==
    {GroupMul(Generator, x2) : x2 \in PrivateKeys \ {key.private_key}}

\* C1: a proof (s, R) returned by proof(m, x) verifies against the same
\* payload m and the public key x*g.
Completeness ==
    (/\ lastVerify.called
     /\ lastVerify.payload = VerifiedProof.payload
     /\ lastVerify.public_key = key.public_key)
        => lastVerify.result = "true"

CompletenessWitness ==
    /\ lastVerify.called
    /\ lastVerify.payload = VerifiedProof.payload
    /\ lastVerify.public_key = key.public_key
    /\ VerifiedProof.nonce # 0
    /\ VerifiedProof.challenge # 0
    /\ lastVerify.result = "true"

\* C3 as stated: a proof made under x1 never verifies against x2*g, x2 # x1,
\* whatever the challenge is.
WrongKeyRejected ==
    (/\ lastVerify.called
     /\ lastVerify.payload = VerifiedProof.payload
     /\ lastVerify.public_key \in OtherPublicKeys)
        => lastVerify.result = "false"

\* C3 amended: a proof made under x1 is rejected against x2*g, x2 # x1,
\* exactly when its challenge is not 0 mod n; with challenge 0 it is accepted.
WrongKeyRejectedUnlessZeroChallenge ==
    (/\ lastVerify.called
     /\ lastVerify.payload = VerifiedProof.payload
     /\ lastVerify.public_key \in OtherPublicKeys)
        => lastVerify.result =
               (IF VerifiedProof.challenge = 0 THEN "true" ELSE "false")

WrongKeyWitness ==
    /\ lastVerify.called
    /\ lastVerify.payload = VerifiedProof.payload
    /\ lastVerify.public_key \in OtherPublicKeys
    /\ VerifiedProof.challenge # 0
    /\ lastVerify.result = "false"

\* C4 as stated: a proof made for m is rejected for every other payload m'.
PayloadBinding ==
    (/\ lastVerify.called
     /\ lastVerify.payload # VerifiedProof.payload
     /\ lastVerify.public_key = key.public_key)
        => lastVerify.result = "false"

\* C4 amended: a proof made for m is accepted for another payload m' exactly
\* when challenge(R, m') is the scalar challenge(R, m); for every other m'
\* verify does not return true.
PayloadBindingUpToCollision ==
    (/\ lastVerify.called
     /\ lastVerify.payload # VerifiedProof.payload
     /\ lastVerify.public_key = key.public_key)
        => (lastVerify.result = "true"
               <=> /\ ~challenge(lastVerify.digest).panic
                   /\ challenge(lastVerify.digest).value = VerifiedProof.challenge)

PayloadBindingWitness ==
    /\ lastVerify.called
    /\ lastVerify.payload # VerifiedProof.payload
    /\ lastVerify.public_key = key.public_key
    /\ ~challenge(lastVerify.digest).panic
    /\ challenge(lastVerify.digest).value # VerifiedProof.challenge
    /\ lastVerify.result = "false"

\* C5: every call of proof draws its own nonce: no draw of the random source
\* serves two proofs, and the nonce of a proof is the scalar drawn in its call.
NonceFresh ==
    /\ Len(rngDraws) = Len(proofs)
    /\ \A i \in 1..Len(proofs) :
           /\ proofs[i].draw \in 1..Len(rngDraws)
           /\ proofs[i].nonce = rngDraws[proofs[i].draw]
           /\ \A j \in 1..Len(proofs) : i # j => proofs[i].draw # proofs[j].draw

NonceFreshWitness ==
    /\ Len(proofs) = 2
    /\ proofs[1].status = "ok"
    /\ proofs[2].status = "ok"
    /\ proofs[1].payload # proofs[2].payload

\* C6 as stated: proof and verify never fail to derive the challenge, and the
\* challenge is the whole digest reduced mod n.
ChallengeIsDigestModN ==
    /\ \A i \in 1..Len(proofs) :
           /\ proofs[i].status = "ok"
           /\ proofs[i].challenge = proofs[i].digest % CurveN
    /\ lastVerify.called =>
           /\ lastVerify.result # "panic"
           /\ challenge(lastVerify.digest).value = lastVerify.digest % CurveN

-----------------------------------------------------------------------------
(* The claims about the proof on the wire *)

\* C2 as stated: verify on decoded input returns true or false, whatever the
\* digest is; it never panics.
VerifyTotal == lastVerify.called => lastVerify.result \in {"true", "false"}

IsUncompressedOnCurve(text) ==
    LET s == HexDecode(text)
    IN  /\ s.ok
        /\ Len(s.bytes) = 1 + 2 * FieldBytes
        /\ s.bytes[1] = 4
        /\ s.bytes[2] \in FieldElements
        /\ s.bytes[3] \in FieldElements
        /\ OnCurve(s.bytes[2], s.bytes[3])

\* C7 as stated: a request is decoded only if its commitment and public_key
\* are hex of 0x04 || x || y with (x, y) on the curve.
DecodeAcceptsOnlyUncompressed ==
    (request.state = "decoded" /\ request.decoded.ok)
        => /\ IsUncompressedOnCurve(request.json.commitment)
           /\ IsUncompressedOnCurve(request.json.public_key)

-----------------------------------------------------------------------------
(* The claims about the token envelope *)

Untouched == decrypted.called /\ decrypted.of = "wire" /\ ~wire.tampered

\* C8 as stated: decrypting what encrypt made, under the same key, gives a
\* token with the payload that was signed and a signature that verifies.
TokenRoundTrip ==
    (Untouched /\ decrypted.text = wire.text /\ decrypted.key = wire.key)
        => /\ decrypted.result.status = "ok"
           /\ decrypted.result.payload = token.payload
           /\ TokenVerify(decrypted.result, token.signer)

\* C9: a token with one byte of its ciphertext changed, and an unchanged
\* token under another key, both decrypt to the error "Decryption failed"
\* and to no token.
TamperDetected ==
    (/\ decrypted.called
     /\ decrypted.of = "wire"
     /\ decrypted.text = wire.text
     /\ wire.tampered \/ decrypted.key # wire.key)
        => /\ decrypted.result.status = "err"
           /\ decrypted.result.error = "Decryption failed"

TamperDetectedWitness ==
    /\ decrypted.called
    /\ decrypted.of = "wire"
    /\ decrypted.text = wire.text
    /\ wire.tampered
    /\ decrypted.key = wire.key
    /\ token.payload # <<>>
    /\ decrypted.result.status = "err"
    /\ decrypted.result.error = "Decryption failed"

\* C10 as stated: whatever text it is given, decrypt never panics, and what
\* it returns is an error or a token whose signature has its full size.
DecryptFailsClosed ==
    decrypted.called
        => /\ decrypted.result.status \in {"ok", "err"}
           /\ decrypted.result.status = "ok"
                  => Size(decrypted.result.signature) = SignatureSize

-----------------------------------------------------------------------------
(* The claims about the random generator *)

\* byte i (from 0) of the keystream of the instance
KeystreamByte(i) ==
    chacha_block(rng.key, rng.nonce,
                 (i \div CHACHA_BLOCK_SIZE) % (2^CounterBits))[(i % CHACHA_BLOCK_SIZE) + 1]

\* C11: whatever calls of next_u8 and fill_bytes were made, the i-th byte
\* output is byte (i mod block size) of the block of counter
\* floor(i / block size) mod 2^CounterBits: nothing of the placeholder block,
\* nothing skipped, nothing twice.
KeystreamInOrder ==
    rng.state = "ready"
        => \A i \in 1..Len(keystream) : keystream[i] = KeystreamByte(i - 1)

\* a fill_bytes that started inside a block, ran over more than two blocks and
\* past the wrap of the counter
KeystreamWitness ==
    /\ rng.state = "ready"
    /\ lastDraw.op = "fill_bytes"
    /\ lastDraw.start % CHACHA_BLOCK_SIZE # 0
    /\ lastDraw.len > 2 * CHACHA_BLOCK_SIZE
    /\ Len(keystream) > CHACHA_BLOCK_SIZE * 2^CounterBits
    /\ Len(keystream) % CHACHA_BLOCK_SIZE # 0

\* C12 as stated: a failure of the entropy source while the generator is
\* constructed is reported to the caller; the construction does not panic.
EntropyFailureReported == rng.state # "panic"

-----------------------------------------------------------------------------
(* The claims about the repository's own curve arithmetic *)

CeilDiv(a, b) == (a + b - 1) \div b

\* the values random_scalar can return for the order n
RandomScalarResults(n) ==
    {random_scalar(n, bytes).k :
        bytes \in {b \in Buffers(RandomScalarLength(n)) : random_scalar(n, b).returned}}

\* C13 as stated: for every order n, each attempt of random_scalar draws
\* ceil(bits(n) / 8) bytes, what it returns lies in [0, n), and every value of
\* [0, n) can be returned.
RejectionSampling ==
    (sampler.op = "random_scalar" /\ sampler.pc = "done")
        => /\ sampler.drawn = CeilDiv(Bits(sampler.curve.n), OctetBits)
           /\ sampler.k \in 0..(sampler.curve.n - 1)
           /\ RandomScalarResults(sampler.curve.n) = 0..(sampler.curve.n - 1)

\* C14 as stated: on every curve generate_key_pair returns, when the byte
\* source is fair and the entropy source works, and what it returns has a
\* private key in [1, n-1] and the public key mul(g, private_key).
KeyPairGenerated ==
    /\ (sampler.op = "generate_key_pair" /\ sampler.pc = "new")
           ~> (sampler.pc = "done" \/ sampler.cause = "entropy")
    /\ []((sampler.op = "generate_key_pair" /\ sampler.pc = "done")
              => /\ sampler.private_key \in 1..(sampler.curve.n - 1)
                 /\ ~sampler.public_key.panic
                 /\ sampler.public_key
                        = mul(sampler.curve.g, sampler.private_key, sampler.curve))

\* nothing panicked while the latest evaluation ran
Evaluated == \A i \in 1..Len(calc.out) : ~calc.out[i].panic

\* C15 as stated: on points of the curve (infinity included) add commutes, is
\* associative and has infinity as its neutral element.
GroupLaws ==
    calc.op = "add"
        => /\ Evaluated
           /\ calc.out[1] = calc.out[2]
           /\ calc.out[3] = calc.out[4]
           /\ calc.out[5] = calc.P
           /\ calc.out[6] = calc.P

\* C16 as stated: for scalars a, b in [0, n), mul(g, (a + b) mod n) equals
\* add(mul(g, a), mul(g, b)), and mul(g, 0) is infinity.
ScalarDistributivity ==
    calc.op = "distribute"
        => /\ Evaluated
           /\ calc.out[1] = calc.out[2]
           /\ calc.out[3] = EllipticCurvePointInfinity

\* a point that is infinity or satisfies the curve equation
Closed(P, params) == ~P.panic /\ P \in CurvePoints(params)

\* C18 as stated: on points of the curve add and mul complete without a panic
\* and return a point of the curve; adding a point and its negation (a point
\* with y = 0 to itself included) gives infinity.
CurveClosure ==
    /\ calc.op = "mul" => Closed(calc.out[1], calc.curve)
    /\ calc.op = "add"
           => /\ Closed(calc.out[1], calc.curve)
              /\ (/\ ~calc.P.infinity
                  /\ ~calc.Q.infinity
                  /\ calc.P.x = calc.Q.x
                  /\ (calc.P.y + calc.Q.y) % calc.curve.p = 0)
                     => calc.out[1] = EllipticCurvePointInfinity

-----------------------------------------------------------------------------
(* The claims about identifiers *)

\* C17 as stated: for every Identifier, whatever its timestamp and its 16-bit
\* fields hold, from_hex(as_hex(id)) and from_base64(as_base64(id)) are
\* Some(id), and packing into a u128 and unpacking returns every field.
IdentifierRoundTrip ==
    ident.called
        => /\ ident.from_hex = SomeIdentifier(ident.id)
           /\ ident.from_base64 = SomeIdentifier(ident.id)
           /\ ident.unpacked = ident.id

\* what call i returned: a u128 from generate_bits, an Identifier from generate
SameReturn(i, j) ==
    /\ issued[i].op = issued[j].op
    /\ IF issued[i].op = "generate_bits"
       THEN issued[i].bits = issued[j].bits
       ELSE issued[i].id = issued[j].id

\* C19 as stated: whatever the clock reads and the random field draws, no two
\* identifiers one generator returned are equal, and the increment of the
\* sequence never overflows.
IdentifiersUnique ==
    /\ \A i \in 1..Len(issued) : ~issued[i].overflow
    /\ \A i \in 1..Len(issued), j \in 1..Len(issued) :
           (i < j /\ ~issued[i].panic /\ ~issued[j].panic) => ~SameReturn(i, j)

-----------------------------------------------------------------------------
(* The claims about the login service *)

\* C20 as stated: login signs and returns a token only if verify returned
\* true under the public key of the user the request names, so that a
\* requester with a key pair of their own gets no token for another user's
\* email; when verification fails login returns Err and signs nothing.
LoginAuthenticates ==
    login.state = "served"
        => /\ (login.result.status = "ok" /\ login.request.email = KeyOwnerEmail)
                  => /\ login.verified = "true"
                     /\ login.request.public_key = key.public_key
                     /\ login.requester = key.private_key
           /\ login.verified = "false"
                  => /\ login.result.status = "err"
                     /\ login.result.token = NoLoginToken

====
